---- MODULE Spec2Model ----
(***************************************************************************)
(* Model of src/main.py: the cursor-paginated product fetcher.             *)
(*                                                                         *)
(*   fetch_product                 retry loop around one HTTP GET          *)
(*   fetch_all_products_parallel   token-chain traversal (coordinator      *)
(*                                 thread plus one pool future per round)  *)
(*   main                          fetch, save to JSON, report             *)
(*   analyze_products              summary statistics (AnalyzeSpec)        *)
(*                                                                         *)
(* The remote server is the environment.  It is fixed at the start of a    *)
(* run: a chain of pages (each carrying a product_id and a next token)     *)
(* and, per request token, the number of leading requests that fail and    *)
(* the way they fail.                                                      *)
(***************************************************************************)
EXTENDS Integers, Sequences, FiniteSets, TLC

\* ------------------------------------------------------------------------
\* Program constants (src/main.py:11-13)
RETRY_LIMIT == 5

INITIAL_RETRY_DELAY == 1

MAX_WORKERS == 5

\* Line 124: the price of the 'no Fashion product' placeholder.
SENTINEL_PRICE == -1

\* ------------------------------------------------------------------------
\* Bounds of the model
\* Number of distinct non-empty tokens the server can hand out (tokens are
\* 1..MaxTokens, so a chain has at most MaxTokens + 1 pages).
MaxTokens == 2

\* Largest finite number of leading failures of one token.
MaxFail == 5

\* Largest number of tokens whose requests fail in one run.
MaxFaulty == 1

\* Longest list handed to analyze_products.
MaxLen == 3

\* Largest price of a record.
MaxPrice == 1

\* History counters saturate here (above every finite failure count).
MaxCount == MaxFail + 2

\* A token that fails on every request.
Forever == MaxCount + 1

\* Exploration of cyclic chains stops once this many records are collected.
MaxProducts == MaxTokens + 2

\* ------------------------------------------------------------------------
\* Tokens.  NONE is Python's None (no token / absent JSON field), EMPTY is
\* the empty string; both are falsy.
NONE == 0

EMPTY == -1

Tokens == 1..MaxTokens

\* What a request can be addressed to: the bare URL (NONE) or a token.
ReqTokens == {NONE} \cup Tokens

TokenValues == {NONE, EMPTY} \cup Tokens

Ids == 1..(MaxTokens + 1)

FailKinds == {"busy", "net", "http", "malformed"}

\* A server whose failing answers are 503 and network faults in any order.
MIXED == "mixed"

VARIABLES
    \* the server (environment), constant during a run
    nextOf,          \* nextOf[u]: next_product_token of the page served for u
    idOf,            \* idOf[u]: product_id of the page served for u
    fails,           \* fails[u]: number of leading requests for u that fail
    kind,            \* how a failing request fails
    jsonErrIsRequestException,  \* does response.json() raise a RequestException
    \* fetch_all_products_parallel / main
    pc,              \* position of the coordinator thread
    products,        \* the list `products`
    next_product_token,
    call,            \* the coordinator's own fetch_product frame
    future,          \* the fetch_product frame of the submitted pool task
    file,            \* what PRODUCTS_FILE holds
    writes,          \* number of times the file was written
    inflight,        \* tasks submitted to the executor and not yet finished
    an,              \* the frame of analyze_products
    \* history
    reqCount,        \* reqCount[u]: requests issued for u (saturating)
    failures         \* failures[t]: error lines printed for token t (saturating)

vars == <<nextOf, idOf, fails, kind, jsonErrIsRequestException, pc, products,
          next_product_token, call, future, file, writes, inflight, an,
          reqCount, failures>>

server == <<nextOf, idOf, fails, kind, jsonErrIsRequestException>>

\* ------------------------------------------------------------------------
\* Helpers
Truthy(tok) == tok \notin {NONE, EMPTY}

\* fetch_product, lines 29-31: the query parameter is added only for a
\* truthy token, so None and "" both address the first page.
Url(tok) == IF Truthy(tok) THEN tok ELSE NONE

\* The JSON object of a page.
Page(u) == [product_id |-> idOf[u], next_product_token |-> nextOf[u]]

NoProduct == [product_id |-> 0, next_product_token |-> NONE]

\* The server's answer to a request for u when n requests for u came before.
Response(u, n) == IF n < fails[u] THEN kind ELSE "ok"

\* The answers one request can get: a mixed server fails either way.
Outcomes(r) == IF r = MIXED THEN {"busy", "net"} ELSE {r}

Bump(f, u) == [f EXCEPT ![u] = IF @ < MaxCount THEN @ + 1 ELSE @]

\* ------------------------------------------------------------------------
\* fetch_product (lines 17-47)
NewCall(tok) ==
    [tok |-> tok, attempt |-> 0, retry_delay |-> INITIAL_RETRY_DELAY,
     step |-> "get", resps |-> <<>>, sleeps |-> <<>>, result |-> NoProduct]

Idle == [NewCall(NONE) EXCEPT !.step = "idle"]

\* A variant in which a 503 answer is not retried.
SleepsOn_No503(r) ==
    \/ r \in {"net", "http"}
    \/ r = "malformed" /\ jsonErrIsRequestException

\* Line 37 and the except clause of line 43: which answers lead to a sleep.
\* 503 is tested explicitly; a network fault raises RequestException from
\* requests.get; raise_for_status raises HTTPError, a RequestException;
\* response.json() raises a RequestException subclass in newer versions of
\* the library and a plain ValueError in older ones.
SleepsOn(r) ==
    \/ r = "busy"
    \/ r \in {"net", "http"}
    \/ r = "malformed" /\ jsonErrIsRequestException

\* Lines 39 and 45.
Backoff(d) == d * 2

\* A variant with an off-by-one loop bound.
MoreAttempts_OffByOne(attempt) == attempt <= RETRY_LIMIT

\* Line 34: for attempt in range(RETRY_LIMIT).
MoreAttempts(attempt) == attempt < RETRY_LIMIT

\* One requests.get and the classification of its answer (lines 36-43).
DoGet(c, r) ==
    [c EXCEPT !.resps = Append(@, r),
              !.step = IF r = "ok" THEN "returned"
                       ELSE IF SleepsOn(r) THEN "sleep"
                       ELSE "raised",
              !.result = IF r = "ok" THEN Page(Url(c.tok)) ELSE NoProduct]

\* A variant in which a network fault starts the backoff sequence afresh.
DoSleep_ResetOnNet(c) ==
    [c EXCEPT !.sleeps = Append(@, c.retry_delay),
              !.retry_delay = IF c.resps[Len(c.resps)] = "net"
                              THEN INITIAL_RETRY_DELAY ELSE Backoff(@),
              !.attempt = @ + 1,
              !.step = IF MoreAttempts(c.attempt + 1) THEN "get" ELSE "raised"]

\* time.sleep, the doubling, and the loop header (lines 38-40, 44-45, 34, 47).
DoSleep(c) ==
    [c EXCEPT !.sleeps = Append(@, c.retry_delay),
              !.retry_delay = Backoff(@),
              !.attempt = @ + 1,
              !.step = IF MoreAttempts(c.attempt + 1) THEN "get" ELSE "raised"]

\* ------------------------------------------------------------------------
\* fetch_all_products_parallel (lines 50-106)
\* A variant that reads the wrong field of the page as the next token.
NextToken_FromId(product) ==
    IF product.product_id \in Tokens THEN product.product_id ELSE NONE

\* Lines 71 and 92: product_data.get('next_product_token').
NextToken(product) == product.next_product_token

\* A variant that tests `is None` instead of falsiness.
EndOfChain_NoneOnly(tok) == tok = NONE

\* Lines 74, 93 and 99: `if not next_product_token`.
EndOfChain(tok) == ~Truthy(tok)

\* A variant that submits more tasks than the pool has workers.
SubmitTokens_Batch(tok) == [i \in 1..(MAX_WORKERS + 1) |-> tok]

\* A variant that submits the token twice.
SubmitTokens_Pair(tok) == <<tok, tok>>

\* Lines 79-82: one task is submitted per element of [next_product_token].
SubmitTokens(tok) == <<tok>>

\* A fetch_product frame whose call has ended (returned or raised).
TaskDone(c) == c.step \in {"returned", "raised"}

\* A variant that inserts at the front of the list.
Absorb_Front(list, product) == <<product>> \o list

\* Line 65: products.append(product_data).
Absorb(list, product) == Append(list, product)

\* A variant in which the result of the future is not collected.
AbsorbFuture_Dropped(list, product) == list

\* Line 87: products.append(result).
AbsorbFuture(list, product) == Append(list, product)

\* ------------------------------------------------------------------------
\* analyze_products (lines 109-145)
FASHION == "Fashion"

TOYS == "Toys & Games"

Categories == {FASHION, TOYS, "Pet Supplies"}

\* Prices from below the placeholder's price up to MaxPrice.
Prices == (SENTINEL_PRICE - 1)..MaxPrice

\* The lists of at most MaxLen records; product_id is the position.
Inputs ==
    UNION {[1..n -> [category : Categories, price : Prices]] : n \in 0..MaxLen}

Product(input, i) ==
    [product_id |-> i, category |-> input[i].category, price |-> input[i].price]

NotAnalyzing == [step |-> "idle"]

\* Lines 122-126: the locals on entry.
AnalyzeEntry(input) ==
    [step |-> "loop",
     input |-> input,
     i |-> 1,
     total_products |-> Len(input),
     category_counts |-> <<>>,
     most_expensive_fashion |-> [price |-> SENTINEL_PRICE],
     toys_games_total_price |-> 0,
     toys_games_count |-> 0,
     average_price_toys_games |-> <<0, 1>>]

\* A variant that stores 1 instead of incrementing.
CountUp_Overwrite(counts, cat) ==
    [c \in DOMAIN counts \cup {cat} |-> IF c = cat THEN 1 ELSE counts[c]]

\* Line 130: category_counts[category] += 1 on a defaultdict(int).
CountUp(counts, cat) ==
    [c \in DOMAIN counts \cup {cat} |->
        IF c = cat THEN (IF c \in DOMAIN counts THEN counts[c] + 1 ELSE 1)
        ELSE counts[c]]

\* Line 132.
BetterFashion(product, best) ==
    product.category = FASHION /\ product.price > best.price

\* Lines 128-141: one round of the loop.
AnalyzeProduct(a, product) ==
    [a EXCEPT
        !.i = @ + 1,
        !.category_counts = CountUp(@, product.category),
        !.most_expensive_fashion =
            IF BetterFashion(product, @)
            THEN [id |-> product.product_id, price |-> product.price]
            ELSE @,
        !.toys_games_total_price =
            IF product.category = TOYS THEN @ + product.price ELSE @,
        !.toys_games_count =
            IF product.category = TOYS THEN @ + 1 ELSE @]

\* Line 143: the average as the exact quotient <<total, count>>, 0 when
\* there is no such product.
AveragePrice(a) ==
    IF a.toys_games_count # 0
    THEN <<a.toys_games_total_price, a.toys_games_count>>
    ELSE <<0, 1>>

\* ------------------------------------------------------------------------
\* Initial states
\* A chain of n pages: the page for NONE, then tokens 1..n-1 in order; the
\* last page carries `last` (NONE, EMPTY, or a back edge to an earlier token).
ChainNext(n, last) ==
    [u \in ReqTokens |-> IF u < n - 1 THEN u + 1 ELSE IF u = n - 1 THEN last ELSE NONE]

\* The request tokens visited from u by following next tokens, at most
\* `fuel` of them.
RECURSIVE ChainFrom(_, _)
ChainFrom(u, fuel) ==
    IF fuel = 0 THEN <<>>
    ELSE IF Truthy(nextOf[u]) THEN <<u>> \o ChainFrom(nextOf[u], fuel - 1)
    ELSE <<u>>

\* The pages of the server's chain, in order.
Chain == ChainFrom(NONE, MaxTokens + 2)

\* The chain ends: no token leads back to an earlier page.
Acyclic == Len(Chain) <= MaxTokens + 1

DistinctIds == [u \in ReqTokens |-> u + 1]

\* The page of token d repeats the identifier of the first page.
RepeatedId(d) == [u \in ReqTokens |-> IF u = d THEN 1 ELSE u + 1]

Faulty(f) == {u \in ReqTokens : f[u] # 0}

FailCounts == (0..MaxFail) \cup {Forever}

\* Failure scripts of a chain of n pages: only pages of the chain fail.
FailScripts(n) ==
    {f \in [ReqTokens -> FailCounts] :
        /\ Cardinality(Faulty(f)) <= MaxFaulty
        /\ \A u \in Faulty(f) : u < n}

\* The ways the requests of a run can fail.  The kind matters only when some
\* request fails; mixed failures are explored with one failing token.
KindsFor(f) ==
    IF Faulty(f) = {} THEN {"busy"}
    ELSE IF Cardinality(Faulty(f)) = 1 THEN FailKinds \cup {MIXED}
    ELSE FailKinds

\* The version of the HTTP library matters only for malformed bodies.
Init ==
    /\ \E n \in 1..(MaxTokens + 1) :
         /\ \E last \in {NONE, EMPTY} \cup (1..(n - 1)) :
              nextOf = ChainNext(n, last)
         /\ idOf \in {DistinctIds} \cup {RepeatedId(d) : d \in 1..(n - 1)}
         /\ fails \in FailScripts(n)
    /\ kind \in KindsFor(fails)
    /\ jsonErrIsRequestException \in (IF kind = "malformed" THEN BOOLEAN ELSE {TRUE})
    /\ pc = "loop"
    /\ products = <<>>
    /\ next_product_token = NONE
    /\ call = Idle
    /\ future = Idle
    /\ file = <<>>
    /\ writes = 0
    /\ inflight = 0
    /\ an = NotAnalyzing
    /\ reqCount = [u \in ReqTokens |-> 0]
    /\ failures = [u \in ReqTokens |-> 0]

\* ------------------------------------------------------------------------
\* Actions
\* Line 64: the coordinator enters fetch_product(next_product_token).
CallMain ==
    /\ pc = "loop"
    /\ call' = NewCall(next_product_token)
    /\ pc' = "L64"
    /\ UNCHANGED <<an, inflight, server, products, next_product_token, future, file, writes,
                   reqCount, failures>>

\* Line 36 on the coordinator thread.
MainGet ==
    /\ pc = "L64"
    /\ call.step = "get"
    /\ Len(products) < MaxProducts
    /\ \E r \in Outcomes(Response(Url(call.tok), reqCount[Url(call.tok)])) :
         call' = DoGet(call, r)
    /\ reqCount' = Bump(reqCount, Url(call.tok))
    /\ UNCHANGED <<an, inflight, server, pc, products, next_product_token, future, file,
                   writes, failures>>

\* Lines 38-40 / 44-45 on the coordinator thread.
MainSleep ==
    /\ pc = "L64"
    /\ call.step = "sleep"
    /\ call' = DoSleep(call)
    /\ UNCHANGED <<an, inflight, server, pc, products, next_product_token, future, file,
                   writes, reqCount, failures>>

\* Line 36 on the pool worker.
PoolGet ==
    /\ pc = "L84"
    /\ future.step = "get"
    /\ Len(products) < MaxProducts
    /\ \E r \in Outcomes(Response(Url(future.tok), reqCount[Url(future.tok)])) :
         future' = DoGet(future, r)
    /\ reqCount' = Bump(reqCount, Url(future.tok))
    /\ inflight' = IF TaskDone(future') THEN inflight - 1 ELSE inflight
    /\ UNCHANGED <<an, server, pc, products, next_product_token, call, file,
                   writes, failures>>

\* Lines 38-40 / 44-45 on the pool worker.
PoolSleep ==
    /\ pc = "L84"
    /\ future.step = "sleep"
    /\ future' = DoSleep(future)
    /\ inflight' = IF TaskDone(future') THEN inflight - 1 ELSE inflight
    /\ UNCHANGED <<an, server, pc, products, next_product_token, call, file,
                   writes, reqCount, failures>>

\* Lines 64-82: the coordinator's fetch returned a page.
MainOk ==
    /\ pc = "L64"
    /\ call.step = "returned"
    /\ products' = Absorb(products, call.result)
    /\ next_product_token' = NextToken(call.result)
    /\ call' = Idle
    /\ IF EndOfChain(NextToken(call.result))
         THEN /\ pc' = "returned"
              /\ future' = future
              /\ inflight' = inflight
         ELSE /\ pc' = "L84"
              /\ future' = NewCall(SubmitTokens(NextToken(call.result))[1])
              /\ inflight' = inflight + Len(SubmitTokens(NextToken(call.result)))
    /\ UNCHANGED <<an, server, file, writes, reqCount, failures>>

\* Lines 102-104: the coordinator's fetch raised; the loop goes round.
MainFail ==
    /\ pc = "L64"
    /\ call.step = "raised"
    /\ failures' = Bump(failures, Url(call.tok))
    /\ call' = Idle
    /\ pc' = "loop"
    /\ UNCHANGED <<an, inflight, server, products, next_product_token, future, file, writes,
                   reqCount>>

\* Lines 84-95, 99-100: the future completed with a page.
FutureOk ==
    /\ pc = "L84"
    /\ future.step = "returned"
    /\ products' = AbsorbFuture(products, future.result)
    /\ next_product_token' = NextToken(future.result)
    /\ future' = Idle
    /\ pc' = IF EndOfChain(NextToken(future.result)) THEN "returned" ELSE "loop"
    /\ UNCHANGED <<an, inflight, server, call, file, writes, reqCount, failures>>

\* A variant in which the failed future's (empty) result is collected and
\* its next token taken over.
FutureFail_CollectsResult ==
    /\ pc = "L84"
    /\ future.step = "raised"
    /\ failures' = Bump(failures, Url(future.tok))
    /\ products' = Append(products, future.result)
    /\ next_product_token' = NextToken(future.result)
    /\ future' = Idle
    /\ pc' = IF EndOfChain(NextToken(future.result)) THEN "returned" ELSE "loop"
    /\ UNCHANGED <<an, inflight, server, call, file, writes, reqCount>>

\* Lines 96-100: the future raised; the token is unchanged (truthy), so the
\* loop goes round.
FutureFail ==
    /\ pc = "L84"
    /\ future.step = "raised"
    /\ failures' = Bump(failures, Url(future.tok))
    /\ future' = Idle
    /\ pc' = IF EndOfChain(next_product_token) THEN "returned" ELSE "loop"
    /\ UNCHANGED <<an, inflight, server, products, next_product_token, call, file, writes,
                   reqCount>>

\* A variant in which the save does not wait for the submitted task.
FetchReturned_Early == pc \in {"returned", "L84"}

\* main, lines 163-166: fetch_all_products_parallel has returned (the
\* executor's `with` block has been left).
FetchReturned == pc = "returned"

\* main, line 166: save_products_to_json(products, PRODUCTS_FILE).
Save ==
    /\ FetchReturned
    /\ file' = products
    /\ writes' = writes + 1
    /\ pc' = "saved"
    /\ UNCHANGED <<an, inflight, server, products, next_product_token, call, future,
                   reqCount, failures>>

\* main, lines 169-183: analyse and print the report.
Report ==
    /\ pc = "saved"
    /\ pc' = "done"
    /\ UNCHANGED <<an, inflight, server, products, next_product_token, call, future, file,
                   writes, reqCount, failures>>

Next ==
    \/ CallMain
    \/ MainGet
    \/ MainSleep
    \/ PoolGet
    \/ PoolSleep
    \/ MainOk
    \/ MainFail
    \/ FutureOk
    \/ FutureFail
    \/ Save
    \/ Report

Spec == Init /\ [][Next]_vars

\* analyze_products on its own: main has saved the file (line 166) and
\* calls analyze_products on a list of records (line 169).
AnalyzeInit ==
    /\ nextOf = ChainNext(1, NONE)
    /\ idOf = DistinctIds
    /\ fails = [u \in ReqTokens |-> 0]
    /\ kind = "busy"
    /\ jsonErrIsRequestException = TRUE
    /\ pc = "saved"
    /\ products = <<>>
    /\ next_product_token = NONE
    /\ call = Idle
    /\ future = Idle
    /\ file = <<>>
    /\ writes = 1
    /\ inflight = 0
    /\ reqCount = [u \in ReqTokens |-> 0]
    /\ failures = [u \in ReqTokens |-> 0]
    /\ \E input \in Inputs : an = AnalyzeEntry(input)

\* Lines 128-141.
AnalyzeStep ==
    /\ an.step = "loop"
    /\ an.i <= Len(an.input)
    /\ an' = AnalyzeProduct(an, Product(an.input, an.i))
    /\ UNCHANGED <<server, pc, products, next_product_token, call, future,
                   file, writes, inflight, reqCount, failures>>

\* Lines 143-145.
AnalyzeReturn ==
    /\ an.step = "loop"
    /\ an.i > Len(an.input)
    /\ an' = [an EXCEPT !.step = "returned",
                      !.average_price_toys_games = AveragePrice(an)]
    /\ UNCHANGED <<server, pc, products, next_product_token, call, future,
                   file, writes, inflight, reqCount, failures>>

AnalyzeNext ==
    \/ AnalyzeStep
    \/ AnalyzeReturn

AnalyzeSpec == AnalyzeInit /\ [][AnalyzeNext]_vars

\* The threads of the program keep running: a step that can be taken is
\* eventually taken.  Only finite (acyclic) chains are considered.
LiveInit ==
    /\ Init
    /\ Acyclic

LiveSpec == LiveInit /\ [][Next]_vars /\ WF_vars(Next)

\* ------------------------------------------------------------------------
\* Properties
Returned == pc \in {"returned", "saved", "done"}

NoFailures == \A u \in ReqTokens : fails[u] = 0

DistinctPageIds ==
    \A i, j \in DOMAIN Chain : i # j => idOf[Chain[i]] # idOf[Chain[j]]

NoDuplicateIds ==
    \A i, j \in DOMAIN products :
        i # j => products[i].product_id # products[j].product_id

\* Number of collected records equal to the page served for u.
Absorbed(u) == Cardinality({i \in DOMAIN products : products[i] = Page(u)})

AnyFailureRecorded == \E u \in ReqTokens : failures[u] > 0

\* C2: once the fetch for a token has failed and the failure is recorded,
\* the engine issues no further request, records no further failure and
\* collects nothing more.
C2_HaltsAfterFailure ==
    [][AnyFailureRecorded =>
         /\ reqCount' = reqCount
         /\ failures' = failures
         /\ products' = products]_vars

\* C3: on every finite chain and for every server behaviour the run
\* reaches the end of main (products saved and reported).
C3_EventuallyReports == <>(pc = "done")

FatalKinds == {"http", "malformed"}

SawFatal(c) == \E i \in DOMAIN c.resps : c.resps[i] \in FatalKinds

\* C4: a fetch_product call that received a fatal answer (a non-503 error
\* status or a malformed body) made exactly one request and never slept.
C4_FatalShortCircuit ==
    \A c \in {call, future} :
        SawFatal(c) => Len(c.resps) = 1 /\ c.sleeps = <<>>

AllBusy(c) == \A i \in DOMAIN c.resps : c.resps[i] = "busy"

\* C5: a fetch_product call that only ever sees 503 makes at most
\* RETRY_LIMIT requests, sleeps INITIAL_RETRY_DELAY * 2^(k-1) after its k-th
\* failure, and raises exactly when RETRY_LIMIT requests have failed.
C5_RetryBudget ==
    \A c \in {call, future} :
        AllBusy(c) =>
            /\ Len(c.resps) <= RETRY_LIMIT
            /\ \A k \in DOMAIN c.sleeps :
                 c.sleeps[k] = INITIAL_RETRY_DELAY * 2 ^ (k - 1)
            /\ Len(c.sleeps) \in {Len(c.resps) - 1, Len(c.resps)}
            /\ (c.step = "raised" => Len(c.resps) = RETRY_LIMIT)
            /\ (Len(c.resps) = RETRY_LIMIT => c.step \in {"sleep", "raised"})

C5_Witness ==
    \E c \in {call, future} :
        /\ AllBusy(c)
        /\ c.step = "raised"
        /\ Len(c.resps) = RETRY_LIMIT
        /\ c.sleeps[RETRY_LIMIT - 1] = INITIAL_RETRY_DELAY * 2 ^ (RETRY_LIMIT - 2)

\* C6: over a whole run no token (the absent token included) is requested
\* more than RETRY_LIMIT times.
C6_AtMostRetryLimitRequests == \A u \in ReqTokens : reqCount[u] <= RETRY_LIMIT

\* C7: in every state of a run no product id occurs twice in the collected
\* records, whatever tokens and ids the server hands out.
C7_NoIdTwice == NoDuplicateIds

\* k 503 answers with 1 <= k < RETRY_LIMIT, then success.
Transient(u) == kind = "busy" /\ fails[u] \in 1..(RETRY_LIMIT - 1)

\* C8: on a finite chain a token that answers k times 503 (1 <= k <
\* RETRY_LIMIT) and then succeeds is requested at most k+1 times, exactly
\* k+1 times once its record is collected, its record is collected at most
\* once and no failure is recorded for it; when no token fails otherwise the
\* run returns every page of the chain with an empty failure log.
C8_TransientFailureRecovered ==
    Acyclic =>
        /\ \A u \in ReqTokens :
             Transient(u) =>
                /\ reqCount[u] <= fails[u] + 1
                /\ failures[u] = 0
                /\ Absorbed(u) <= 1
                /\ (Absorbed(u) = 1 => reqCount[u] = fails[u] + 1)
        /\ (Returned /\ \A u \in ReqTokens : fails[u] = 0 \/ Transient(u)) =>
                /\ Len(products) = Len(Chain)
                /\ ~AnyFailureRecorded
                /\ \A k \in DOMAIN Chain :
                     /\ Absorbed(Chain[k]) = 1
                     /\ reqCount[Chain[k]] = fails[Chain[k]] + 1

C8_Witness ==
    /\ Returned /\ Acyclic
    /\ Len(Chain) = 3
    /\ Transient(1) /\ fails[1] = 1
    /\ reqCount[1] = 2
    /\ Len(products) = 3
    /\ ~AnyFailureRecorded

TerminalSeen ==
    \E i \in DOMAIN products : ~Truthy(products[i].next_product_token)

\* C9: once a page without a (non-empty) next token has been collected the
\* engine has returned, that page is the last record, no request is issued
\* and nothing is collected afterwards; on a failure-free finite chain
\* exactly as many pages as the chain has are collected.
C9_StopsAtEndOfChain ==
    /\ [](TerminalSeen =>
            /\ Returned
            /\ ~Truthy(products[Len(products)].next_product_token)
            /\ \A i \in 1..(Len(products) - 1) :
                 Truthy(products[i].next_product_token)
            /\ call.step = "idle" /\ future.step = "idle")
    /\ [][TerminalSeen => reqCount' = reqCount /\ products' = products]_vars
    /\ []((Returned /\ Acyclic /\ NoFailures) => Len(products) = Len(Chain))

C9_Witness ==
    /\ pc = "done"
    /\ TerminalSeen
    /\ products[Len(products)].next_product_token = EMPTY
    /\ Len(products) = MaxTokens + 1

Revealed(t) == \E i \in DOMAIN products : products[i].next_product_token = t

\* C10: a token is requested (or a fetch for it started) only after a
\* collected page revealed it, and before any page is collected only the
\* bare URL is requested.
C10_SequentialDiscovery ==
    /\ \A t \in Tokens :
         (reqCount[t] > 0 \/ call.tok = t \/ future.tok = t) => Revealed(t)
    /\ (\E u \in ReqTokens : reqCount[u] > 0) => reqCount[NONE] > 0
    /\ Truthy(next_product_token) => Revealed(next_product_token)

C10_Witness ==
    /\ reqCount[MaxTokens] > 0
    /\ Revealed(MaxTokens)
    /\ Len(products) = MaxTokens

\* Fetch tasks of the pool that hold a worker (request in flight or in a
\* backoff sleep).
PoolActive == IF future.step \in {"get", "sleep"} THEN 1 ELSE 0

\* C11: the tasks submitted to the pool and not yet finished never exceed
\* MAX_WORKERS, so none waits for a worker and the number of active fetch
\* tasks never exceeds the pool size.
C11_WithinPoolSize ==
    /\ inflight <= MAX_WORKERS
    /\ PoolActive <= inflight

C11_Witness ==
    /\ inflight = 1
    /\ future.step = "sleep"
    /\ Len(future.sleeps) = 2

\* C12: the file is written at most once, exactly once when main is done;
\* when it is written no fetch is running or pending, it holds the
\* collected records, and the collection does not change at or after the
\* write.
C12_SavedOnceAfterTraversal ==
    /\ [](writes <= 1)
    /\ [](pc = "done" => writes = 1)
    /\ [](writes >= 1 =>
            /\ pc \in {"saved", "done"}
            /\ call = Idle /\ future = Idle /\ inflight = 0
            /\ file = products)
    /\ [][writes' > writes =>
            /\ call = Idle /\ future = Idle /\ inflight = 0
            /\ products' = products]_vars
    /\ [][writes >= 1 => products' = products /\ reqCount' = reqCount]_vars

C12_Witness ==
    /\ pc = "done"
    /\ writes = 1
    /\ Len(file) = MaxTokens + 1

Running(c) == c.step \in {"get", "sleep"}

C13_NoSleepAfterFinalAttempt ==
    \A c \in {call, future} :
        /\ Len(c.sleeps) <= RETRY_LIMIT - 1
        /\ (TaskDone(c) => Len(c.sleeps) < Len(c.resps))

Retryable == {"busy", "net"}

OnlyRetryable(c) == \A i \in DOMAIN c.resps : c.resps[i] \in Retryable \cup {"ok"}

FailuresOf(c) == Cardinality({i \in DOMAIN c.resps : c.resps[i] \in Retryable})

\* C14: a fetch_product call whose failures are 503s and network faults in
\* any order makes at most RETRY_LIMIT requests, sleeps once per failure,
\* and the sleep after its k-th failure (of either kind) lasts
\* INITIAL_RETRY_DELAY * 2^(k-1).
C14_SharedBudgetAndBackoff ==
    \A c \in {call, future} :
        OnlyRetryable(c) =>
            /\ Len(c.resps) <= RETRY_LIMIT
            /\ FailuresOf(c) <= RETRY_LIMIT
            /\ Len(c.sleeps) \in {FailuresOf(c) - 1, FailuresOf(c)}
            /\ \A k \in DOMAIN c.sleeps :
                 c.sleeps[k] = INITIAL_RETRY_DELAY * 2 ^ (k - 1)
            /\ (c.step = "raised" => FailuresOf(c) = RETRY_LIMIT)

C14_Witness ==
    \E c \in {call, future} :
        /\ c.resps = <<"busy", "net", "net", "busy", "net">>
        /\ c.step = "raised"
        /\ c.sleeps[4] = INITIAL_RETRY_DELAY * 8

\* C15: handling a failed fetch (on the coordinator or from the future)
\* changes neither the collection nor the current token, and the collection
\* only ever changes by appending the page a fetch returned.
C15_FailureChangesNothing ==
    /\ [][(call.step = "raised" \/ future.step = "raised") =>
            /\ products' = products
            /\ next_product_token' = next_product_token]_vars
    /\ [][products' # products =>
            \E c \in {call, future} :
                /\ c.step = "returned"
                /\ c.resps[Len(c.resps)] = "ok"
                /\ c.result = Page(Url(c.tok))
                /\ products' = Append(products, c.result)]_vars

C15_Witness ==
    /\ pc = "done"
    /\ failures[1] = 1
    /\ failures[NONE] = 0
    /\ Len(products) = MaxTokens + 1
    /\ file = products

\* C16: on a finite chain the collected list is always the first k pages of
\* the chain in chain order, and the current token is the one page k
\* revealed (None when k = 0), whatever fails.
C16_PrefixOfChain ==
    Acyclic =>
        /\ Len(products) <= Len(Chain)
        /\ \A i \in DOMAIN products : products[i] = Page(Chain[i])
        /\ next_product_token =
             IF products = <<>> THEN NONE ELSE nextOf[Chain[Len(products)]]

C16_Witness ==
    /\ Acyclic
    /\ Len(Chain) = 3
    /\ Len(products) = 2
    /\ failures[2] >= 2
    /\ pc = "L64"

CountOf(input, cat) ==
    Cardinality({i \in DOMAIN input : input[i].category = cat})

RECURSIVE SumOver(_, _)
SumOver(f, S) ==
    IF S = {} THEN 0
    ELSE LET c == CHOOSE x \in S : TRUE IN f[c] + SumOver(f, S \ {c})

\* C18: analyze_products returns the number of records as total, and a
\* mapping whose keys are exactly the categories that occur, each with the
\* number of records of that category; the counts sum to the total.
C18_CountsPerCategory ==
    an.step = "returned" =>
        /\ an.total_products = Len(an.input)
        /\ DOMAIN an.category_counts =
             {an.input[i].category : i \in DOMAIN an.input}
        /\ \A c \in DOMAIN an.category_counts :
             /\ an.category_counts[c] = CountOf(an.input, c)
             /\ an.category_counts[c] > 0
        /\ SumOver(an.category_counts, DOMAIN an.category_counts)
             = an.total_products

C18_Witness ==
    /\ an.step = "returned"
    /\ Len(an.input) = MaxLen
    /\ DOMAIN an.category_counts = {FASHION, TOYS}
    /\ an.category_counts[FASHION] = 2

FashionIdx(input) == {i \in DOMAIN input : input[i].category = FASHION}

\* C19: when the input has a Fashion record, analyze_products returns the
\* first Fashion record of the highest Fashion price; when it has none it
\* returns the placeholder with price -1.
C19_MostExpensiveFashion ==
    an.step = "returned" =>
        IF FashionIdx(an.input) # {}
        THEN \E i \in FashionIdx(an.input) :
                /\ an.most_expensive_fashion
                     = [id |-> i, price |-> an.input[i].price]
                /\ \A j \in FashionIdx(an.input) :
                     /\ an.input[j].price <= an.input[i].price
                     /\ (an.input[j].price = an.input[i].price => i <= j)
        ELSE an.most_expensive_fashion = [price |-> SENTINEL_PRICE]

====
